---- MODULE Spec2Model ----
(***************************************************************************)
(* Courier Hotspots (UK-ZONES): the App component of src/App.tsx as a      *)
(* state machine.  React state and refs are variables; the Leaflet map is  *)
(* modelled by the set of layers attached to it, the cluster group's       *)
(* feature group, the circles' drawn radii, the markers' icons and the     *)
(* open popup with its DOM nodes.  One action per user event; an action    *)
(* runs the event handler, the re-render and every effect whose            *)
(* dependencies changed, in declaration order.                             *)
(***************************************************************************)
EXTENDS Integers, Sequences, FiniteSets, TLC

\* ---- bounds -------------------------------------------------------------
NumLocations == 2
MaxSliderInputs == 1
MaxTermLen == 2
MaxPendingRequests == 1

\* ---- program constants --------------------------------------------------
SliderMin == 1
SliderMax == 50
DefaultRadius == 10
MetersPerKm == 1000

CatalogIds == 1..NumLocations
\* an id that is in no catalog record
UnknownId == NumLocations + 1
AllIds == CatalogIds \cup {UnknownId}
\* the slider positions the model delivers (a prefix of min..max)
SliderInputs == {v \in SliderMin..SliderMax : v < SliderMin + MaxSliderInputs}

VARIABLES
    phase,                  \* "rendered" (first render, effects pending), "mounted", "unmounted"
    searchTerm,
    cities,                 \* LOCATIONS: id -> city name, a sequence of characters
    filteredLocations,      \* the useMemo result: ids of the listed locations, in order
    pendingReveals,          \* markers a zoomToShowLayer callback is waiting for
    fullscreenElement,      \* document.fullscreenElement is set
    fullscreenRequests,     \* requestFullscreen promises not yet settled
    radii,                  \* RadiusMap: id -> km
    isSynced,
    uniformRadius,
    showLabels,
    showHeatmap,
    isClusteringEnabled,
    mapRef,                 \* mapRef.current is set
    layerRefs,              \* ids with a {marker, circle} handle pair
    markerClusterGroupRef,  \* markerClusterGroupRef.current is set
    heatmapLayerRef,        \* heatmapLayerRef.current is set
    updateRadiusFn,         \* window.updateRadius: "unset", "live" or "noop"
    mapLayers,              \* layers attached to the map (map.hasLayer)
    fgLayers,               \* markers the cluster group shows expanded
    circleRadius,           \* id -> drawn radius in meters
    markerIcon,             \* id -> icon carries the label bubble
    popupOpen,              \* id of the open popup, 0 if none
    popupLabel,             \* innerText of #radius-val-<id> of the open popup
    popupSlider,            \* value of #radius-<id> of the open popup
    calls                   \* Leaflet calls issued by the last event, in order

vars == <<phase, searchTerm, cities, filteredLocations, pendingReveals,
          fullscreenElement, fullscreenRequests, radii, isSynced, uniformRadius, showLabels,
          showHeatmap, isClusteringEnabled, mapRef, layerRefs,
          markerClusterGroupRef, heatmapLayerRef, updateRadiusFn, mapLayers,
          fgLayers, circleRadius, markerIcon, popupOpen, popupLabel,
          popupSlider, calls>>

searchVars == <<searchTerm, cities, filteredLocations>>
asyncVars == <<pendingReveals, fullscreenElement, fullscreenRequests>>
reactVars == <<searchVars, asyncVars, radii, isSynced, uniformRadius, showLabels,
               showHeatmap, isClusteringEnabled>>
refVars == <<mapRef, layerRefs, markerClusterGroupRef, heatmapLayerRef,
             updateRadiusFn>>

\* ---- layers and calls --------------------------------------------------
Layer(kind, id) == [kind |-> kind, id |-> id]
Marker(id) == Layer("marker", id)
Circle(id) == Layer("circle", id)
ClusterGroup == Layer("cluster", 0)
HeatLayer == Layer("heat", 0)

Call(op, l, arg) == [op |-> op, kind |-> l.kind, id |-> l.id, arg |-> arg]

\* Object.keys / Object.entries / Object.values of an integer-keyed object
\* enumerate the keys in ascending order.
RECURSIVE SortedSeq(_)
SortedSeq(S) ==
    IF S = {} THEN <<>>
    ELSE LET m == CHOOSE x \in S : \A y \in S : x <= y
         IN <<m>> \o SortedSeq(S \ {m})

\* ---- the Leaflet side as one record -------------------------------------
World ==
    [layers |-> mapLayers, fg |-> fgLayers, circleRadius |-> circleRadius,
     icon |-> markerIcon, popup |-> popupOpen, label |-> popupLabel,
     slider |-> popupSlider, calls |-> <<>>]

\* x is bound to the value of w, so the handler's result is computed once
SetWorld(w) ==
    \E x \in {w} :
        /\ mapLayers' = x.layers
        /\ fgLayers' = x.fg
        /\ circleRadius' = x.circleRadius
        /\ markerIcon' = x.icon
        /\ popupOpen' = x.popup
        /\ popupLabel' = x.label
        /\ popupSlider' = x.slider
        /\ calls' = x.calls

Log(w, c) == [w EXCEPT !.calls = Append(@, c)]

\* ---- Leaflet primitives --------------------------------------------------
\* Closing the popup removes its DOM nodes from the document.
ClosePopupOf(w, id) ==
    IF w.popup = id /\ id # 0
    THEN [w EXCEPT !.popup = 0, !.label = 0, !.slider = 0]
    ELSE w

\* marker.on('add', ...): the circle follows its marker onto the map.
MarkerOnAdd(w, id) ==
    IF Circle(id) \notin w.layers
    THEN Log([w EXCEPT !.layers = @ \cup {Circle(id)}], Call("addLayer", Circle(id), 0))
    ELSE w

\* a 'remove' listener that forgets to take the circle off the map
MarkerOnRemove_Keeps(w, id) == w

\* marker.on('remove', ...): the circle follows its marker off the map.
MarkerOnRemove(w, id) ==
    IF Circle(id) \in w.layers
    THEN Log([w EXCEPT !.layers = @ \ {Circle(id)}], Call("removeLayer", Circle(id), 0))
    ELSE w

\* map.addLayer(layer): no-op when attached, else attach and fire 'add'.
MapAddLayer(w, l) ==
    IF l \in w.layers THEN w
    ELSE LET w1 == [w EXCEPT !.layers = @ \cup {l}]
         IN IF l.kind = "marker" THEN MarkerOnAdd(w1, l.id) ELSE w1

\* map.removeLayer(layer): no-op when detached, else detach and fire
\* 'remove'; a marker's bound popup closes with it.
MapRemoveLayer(w, l) ==
    IF l \notin w.layers THEN w
    ELSE LET w1 == [w EXCEPT !.layers = @ \ {l}]
         IN IF l.kind = "marker"
            THEN ClosePopupOf(MarkerOnRemove(w1, l.id), l.id)
            ELSE w1

RECURSIVE AddMarkers(_, _)
AddMarkers(w, ids) ==
    IF ids = <<>> THEN w
    ELSE AddMarkers(MapAddLayer(w, Marker(Head(ids))), Tail(ids))

RECURSIVE RemoveMarkers(_, _)
RemoveMarkers(w, ids) ==
    IF ids = <<>> THEN w
    ELSE RemoveMarkers(MapRemoveLayer(w, Marker(Head(ids))), Tail(ids))

\* map.addLayer(markerClusterGroup): the group attaches and puts the
\* markers S it shows expanded at the current viewport on the map.
MapAddCluster(w, S) ==
    IF ClusterGroup \in w.layers THEN w
    ELSE AddMarkers([w EXCEPT !.layers = @ \cup {ClusterGroup}, !.fg = S],
                    SortedSeq(S))

\* map.removeLayer(markerClusterGroup): the group takes the markers it
\* shows off the map and detaches.
MapRemoveCluster(w) ==
    IF ClusterGroup \notin w.layers THEN w
    ELSE LET w1 == RemoveMarkers(w, SortedSeq(w.fg))
         IN [w1 EXCEPT !.layers = @ \ {ClusterGroup}, !.fg = {}]

\* ---- App.tsx --------------------------------------------------------------
\* an icon builder that ignores labelsVisible
createMarkerIcon_AlwaysLabel(id, labelsVisible) == [dot |-> TRUE, label |-> id]

\* createMarkerIcon(loc, labelsVisible): the dot, and the label bubble with
\* the city name when labelsVisible.
createMarkerIcon(id, labelsVisible) ==
    [dot |-> TRUE, label |-> IF labelsVisible THEN id ELSE 0]

initialRadii == [id \in CatalogIds |-> DefaultRadius]

\* Map initialization effect: one marker, circle and popup per location, all
\* markers in the cluster group, the cluster group on the map; the heat
\* layer is created but not attached.
\* L.marker(...) and L.circle(...) for one location: a marker with the
\* labelled icon and a circle of 10 km, neither on the map
CreateLayers(w, id) ==
    LET w1 == [w EXCEPT !.icon = [x \in DOMAIN @ \cup {id} |->
                                   IF x = id THEN createMarkerIcon(id, TRUE) ELSE @[x]],
                        !.circleRadius = [x \in DOMAIN @ \cup {id} |->
                                   IF x = id THEN DefaultRadius * MetersPerKm ELSE @[x]]]
    IN Log(Log(w1, Call("createMarker", Marker(id), 0)),
           Call("createCircle", Circle(id), DefaultRadius * MetersPerKm))

\* an initialization loop that creates the layers but adds no marker to the
\* cluster group
RECURSIVE InitLayers_NoGroup(_, _)
InitLayers_NoGroup(w, ids) ==
    IF ids = <<>> THEN w
    ELSE InitLayers_NoGroup(CreateLayers(w, Head(ids)), Tail(ids))

RECURSIVE InitLayers(_, _)
InitLayers(w, ids) ==
    IF ids = <<>> THEN w
    ELSE LET id == Head(ids)
         IN InitLayers(Log(CreateLayers(w, id), Call("clusterAddLayer", Marker(id), 0)),
                       Tail(ids))

InitEffect(w, S) ==
    LET w1 == InitLayers(w, SortedSeq(CatalogIds))
    IN MapAddCluster(Log(w1, Call("addLayer", ClusterGroup, 0)), S)

\* a slider's value attribute: the decimal digits of its position
DigitChars == <<"0", "1", "2", "3", "4", "5", "6", "7", "8", "9">>

RECURSIVE SliderValue(_)
SliderValue(n) ==
    IF n < 10 THEN <<DigitChars[n + 1]>>
    ELSE Append(SliderValue(n \div 10), DigitChars[(n % 10) + 1])

\* Number(value) for a string of decimal digits
DigitValue(c) == (CHOOSE i \in 1..Len(DigitChars) : DigitChars[i] = c) - 1

RECURSIVE Number(_)
Number(str) ==
    IF str = <<>> THEN 0
    ELSE Number(SubSeq(str, 1, Len(str) - 1)) * 10 + DigitValue(str[Len(str)])

\* the slider positions delivered as strings: both ends of the range and
\* the positions of SliderInputs
EdgeInputs == {SliderValue(v) : v \in {SliderMin, SliderMax} \cup SliderInputs}

\* an entry point that stores the radius in meters
updateRadius_Meters(prev, id, radius) ==
    [x \in DOMAIN prev \cup {id} |-> IF x = id THEN radius * MetersPerKm ELSE prev[x]]

\* the body of window.updateRadius: setRadii(prev => ({...prev, [id]: Number(radius)}))
updateRadius(prev, id, radius) ==
    [x \in DOMAIN prev \cup {id} |-> IF x = id THEN radius ELSE prev[x]]

\* a circle update that passes kilometers where meters are expected
RadiiEntry_NoScale(w, id, radius, refs) ==
    IF id \in refs
    THEN LET w1 == Log([w EXCEPT !.circleRadius[id] = radius],
                       Call("setRadius", Circle(id), radius))
         IN IF w1.popup = id
            THEN [w1 EXCEPT !.slider = radius, !.label = radius]
            ELSE w1
    ELSE w

\* one iteration of the radii effect: redraw the circle and, when the
\* popup's nodes are in the document, its slider and label.
RadiiEntry(w, id, radius, refs) ==
    IF id \in refs
    THEN LET radiusInMeters == radius * MetersPerKm
             w1 == Log([w EXCEPT !.circleRadius[id] = radiusInMeters],
                       Call("setRadius", Circle(id), radiusInMeters))
         IN IF w1.popup = id
            THEN [w1 EXCEPT !.slider = radius, !.label = radius]
            ELSE w1
    ELSE w

RECURSIVE RadiiLoop(_, _, _, _)
RadiiLoop(w, r, ids, refs) ==
    IF ids = <<>> THEN w
    ELSE RadiiLoop(RadiiEntry(w, Head(ids), r[Head(ids)], refs), r, Tail(ids), refs)

\* Effect to update circle radii when React state changes, deps [radii].
RadiiEffect(w, r, refs) == RadiiLoop(w, r, SortedSeq(DOMAIN r), refs)

\* a heatmap effect with the two branches swapped
HeatmapEffect_Swapped(w, mapSet, heatSet, show) ==
    IF ~mapSet \/ ~heatSet THEN w
    ELSE IF ~show
         THEN IF HeatLayer \notin w.layers
              THEN MapAddLayer(Log(w, Call("addLayer", HeatLayer, 0)), HeatLayer)
              ELSE w
         ELSE IF HeatLayer \in w.layers
              THEN MapRemoveLayer(Log(w, Call("removeLayer", HeatLayer, 0)), HeatLayer)
              ELSE w

\* Effect to toggle the heatmap layer, deps [showHeatmap].
HeatmapEffect(w, mapSet, heatSet, show) ==
    IF ~mapSet \/ ~heatSet THEN w
    ELSE IF show
         THEN IF HeatLayer \notin w.layers
              THEN MapAddLayer(Log(w, Call("addLayer", HeatLayer, 0)), HeatLayer)
              ELSE w
         ELSE IF HeatLayer \in w.layers
              THEN MapRemoveLayer(Log(w, Call("removeLayer", HeatLayer, 0)), HeatLayer)
              ELSE w

\* a bulk update that leaves the last key out
SyncEffect_SkipsLast(r, uniform) ==
    [id \in DOMAIN r |->
        IF \A k \in DOMAIN r : k <= id THEN r[id] ELSE uniform]

\* Body of the synchronizing effect under isSynced: newRadii, every key of
\* radii mapped to uniformRadius.
SyncEffect(r, uniform) == [id \in DOMAIN r |-> uniform]

\* Effect to toggle marker labels, deps [showLabels].
RECURSIVE LabelsEffect(_, _, _, _)
LabelsEffect(w, ids, refs, show) ==
    IF ids = <<>> THEN w
    ELSE LET id == Head(ids)
             w1 == IF id \in refs
                   THEN Log([w EXCEPT !.icon[id] = createMarkerIcon(id, show)],
                            Call("setIcon", Marker(id), IF show THEN 1 ELSE 0))
                   ELSE w
         IN LabelsEffect(w1, Tail(ids), refs, show)

\* Object.values(layerRefs.current).forEach: remove the markers on the map
RECURSIVE RemoveIndividualMarkers(_, _)
RemoveIndividualMarkers(w, ids) ==
    IF ids = <<>> THEN w
    ELSE LET m == Marker(Head(ids))
             w1 == IF m \in w.layers
                   THEN MapRemoveLayer(Log(w, Call("removeLayer", m, 0)), m)
                   ELSE w
         IN RemoveIndividualMarkers(w1, Tail(ids))

\* Object.values(layerRefs.current).forEach: add the markers not on the map
RECURSIVE AddIndividualMarkers(_, _)
AddIndividualMarkers(w, ids) ==
    IF ids = <<>> THEN w
    ELSE LET m == Marker(Head(ids))
             w1 == IF m \notin w.layers
                   THEN MapAddLayer(Log(w, Call("addLayer", m, 0)), m)
                   ELSE w
         IN AddIndividualMarkers(w1, Tail(ids))

\* a clustering effect that leaves the individual markers on the map when
\* clustering is switched on
ClusteringEffect_KeepsMarkers(w, mapSet, groupSet, refs, enabled, S) ==
    IF ~mapSet \/ ~groupSet THEN w
    ELSE IF enabled
         THEN IF ClusterGroup \notin w.layers
              THEN MapAddCluster(Log(w, Call("addLayer", ClusterGroup, 0)), S)
              ELSE w
         ELSE LET w1 == IF ClusterGroup \in w.layers
                        THEN MapRemoveCluster(Log(w, Call("removeLayer", ClusterGroup, 0)))
                        ELSE w
              IN AddIndividualMarkers(w1, SortedSeq(refs))

\* Effect to toggle clustering, deps [isClusteringEnabled].  S is the set of
\* markers the cluster group shows expanded if it is attached here.
ClusteringEffect(w, mapSet, groupSet, refs, enabled, S) ==
    IF ~mapSet \/ ~groupSet THEN w
    ELSE IF enabled
         THEN LET w1 == RemoveIndividualMarkers(w, SortedSeq(refs))
              IN IF ClusterGroup \notin w1.layers
                 THEN MapAddCluster(Log(w1, Call("addLayer", ClusterGroup, 0)), S)
                 ELSE w1
         ELSE LET w1 == IF ClusterGroup \in w.layers
                        THEN MapRemoveCluster(Log(w, Call("removeLayer", ClusterGroup, 0)))
                        ELSE w
              IN AddIndividualMarkers(w1, SortedSeq(refs))

\* React re-runs an effect when one of its dependencies changed.
LabelsDeps_Always(old, new) == TRUE
LabelsDeps(old, new) == old # new
HeatmapDeps(old, new) == old # new
ClusteringDeps(old, new) == old # new
SyncDeps(oldSynced, oldUniform, newSynced, newUniform) ==
    oldSynced # newSynced \/ oldUniform # newUniform

\* ---- the search filter ---------------------------------------------------
\* A string is a sequence of characters.  The letters that have two cases:
UpperChars == <<"L", "O", "B">>
LowerChars == <<"l", "o", "b">>

\* String.prototype.toLowerCase, one character
toLowerCaseChar(c) ==
    IF \E i \in 1..Len(UpperChars) : UpperChars[i] = c
    THEN LowerChars[CHOOSE i \in 1..Len(UpperChars) : UpperChars[i] = c]
    ELSE c

toLowerCase(str) == [i \in 1..Len(str) |-> toLowerCaseChar(str[i])]

\* String.prototype.includes: term occurs in str at some offset
includes(str, term) ==
    \E k \in 0..(Len(str) - Len(term)) : SubSeq(str, k + 1, k + Len(term)) = term

\* a filter predicate that lowers the city name but not the search term
locationMatches_RawTerm(city, term) == includes(toLowerCase(city), term)

\* the filter predicate: location.city.toLowerCase().includes(searchTerm.toLowerCase())
locationMatches(city, term) == includes(toLowerCase(city), toLowerCase(term))

\* LOCATIONS.filter(...): the matching locations, in catalog order
RECURSIVE filterLocations(_, _, _)
filterLocations(ids, c, term) ==
    IF ids = <<>> THEN <<>>
    ELSE (IF locationMatches(c[Head(ids)], term) THEN <<Head(ids)>> ELSE <<>>)
         \o filterLocations(Tail(ids), c, term)

\* the city names and search terms the model draws its inputs from
CityNames == {<<"L", "o">>, <<"L", "o", "b">>, <<"o", "L">>, <<"B">>}
TermChars == {"l", "O", "b"}
Terms == UNION {[1..n -> TermChars] : n \in 0..MaxTermLen}

\* the popup markup bound to each marker carries the literal 10 twice
PopupInitialValue == 10
DetailZoom == 13

\* ---- initial state: the first render, before any effect has run ----------
InitState(c) ==
    /\ phase = "rendered"
    /\ searchTerm = <<>>
    /\ cities = c
    /\ filteredLocations = filterLocations(SortedSeq(CatalogIds), c, <<>>)
    /\ pendingReveals = {}
    /\ fullscreenElement = FALSE
    /\ fullscreenRequests = 0
    /\ radii = <<>>
    /\ isSynced = FALSE
    /\ uniformRadius = 10
    /\ showLabels = TRUE
    /\ showHeatmap = FALSE
    /\ isClusteringEnabled = TRUE
    /\ mapRef = FALSE
    /\ layerRefs = {}
    /\ markerClusterGroupRef = FALSE
    /\ heatmapLayerRef = FALSE
    /\ updateRadiusFn = "unset"
    /\ mapLayers = {}
    /\ fgLayers = {}
    /\ circleRadius = <<>>
    /\ markerIcon = <<>>
    /\ popupOpen = 0
    /\ popupLabel = 0
    /\ popupSlider = 0
    /\ calls = <<>>

\* the catalog the other specifications run on: two names, one a prefix of
\* the other
DefaultCities ==
    [id \in CatalogIds |-> IF id % 2 = 1 THEN <<"L", "o">> ELSE <<"L", "o", "b">>]

Init == InitState(DefaultCities)

\* ---- actions ----------------------------------------------------------------
\* Mount: every effect runs once in declaration order, the radii effect on
\* the first render's empty radii and the synchronizing effect with isSynced
\* false (no setRadii); the init effect's setRadii(initialRadii) then causes
\* a re-render and the radii effect.
Mount(S) ==
    /\ phase = "rendered"
    /\ ~mapRef
    /\ LET w1 == InitEffect(World, S)
           w2 == RadiiEffect(w1, radii, CatalogIds)
           w3 == HeatmapEffect(w2, TRUE, TRUE, showHeatmap)
           w5 == LabelsEffect(w3, SortedSeq(CatalogIds), CatalogIds, showLabels)
           w6 == ClusteringEffect(w5, TRUE, TRUE, CatalogIds, isClusteringEnabled, S)
       IN /\ radii' = initialRadii
          /\ SetWorld(RadiiEffect(w6, initialRadii, CatalogIds))
    /\ phase' = "mounted"
    /\ mapRef' = TRUE
    /\ heatmapLayerRef' = TRUE
    /\ markerClusterGroupRef' = TRUE
    /\ layerRefs' = CatalogIds
    /\ updateRadiusFn' = "live"
    /\ UNCHANGED <<searchVars, asyncVars, isSynced, uniformRadius, showLabels, showHeatmap,
                   isClusteringEnabled>>

\* an entry point that switches synchronization off on a per-location input
UpdateRadius_ClearsSync(id, radius) ==
    /\ phase # "rendered"
    /\ IF updateRadiusFn = "live"
       THEN /\ radii' = updateRadius(radii, id, radius)
            /\ isSynced' = FALSE
            /\ SetWorld(RadiiEffect(World, radii', layerRefs))
       ELSE /\ radii' = radii
            /\ isSynced' = isSynced
            /\ SetWorld(World)
    /\ UNCHANGED <<phase, searchVars, asyncVars, uniformRadius, showLabels,
                   showHeatmap, isClusteringEnabled, refVars>>

\* window.updateRadius(id, radius), the global entry point.
UpdateRadius(id, radius) ==
    /\ phase # "rendered"
    /\ IF updateRadiusFn = "live"
       THEN /\ radii' = updateRadius(radii, id, radius)
            /\ SetWorld(RadiiEffect(World, radii', layerRefs))
       ELSE /\ radii' = radii
            /\ SetWorld(World)
    /\ UNCHANGED <<phase, searchVars, asyncVars, isSynced, uniformRadius, showLabels,
                   showHeatmap, isClusteringEnabled, refVars>>

\* oninput of the slider in the open popup of id: the label is set inline,
\* then window.updateRadius(id, this.value).
PopupSliderInput(id, value) ==
    /\ phase = "mounted"
    /\ popupOpen = id
    /\ updateRadiusFn = "live"
    /\ radii' = updateRadius(radii, id, value)
    /\ SetWorld(RadiiEffect([World EXCEPT !.slider = value, !.label = value],
                            radii', layerRefs))
    /\ UNCHANGED <<phase, searchVars, asyncVars, isSynced, uniformRadius, showLabels,
                   showHeatmap, isClusteringEnabled, refVars>>

\* a sync checkbox that puts every radius back to the default when cleared
SetIsSynced_ResetsOnClear(v) ==
    /\ phase = "mounted"
    /\ isSynced' = v
    /\ IF SyncDeps(isSynced, uniformRadius, v, uniformRadius)
       THEN /\ radii' = SyncEffect(radii, IF v THEN uniformRadius ELSE DefaultRadius)
            /\ SetWorld(RadiiEffect(World, radii', layerRefs))
       ELSE /\ radii' = radii
            /\ SetWorld(World)
    /\ UNCHANGED <<phase, searchVars, asyncVars, uniformRadius, showLabels, showHeatmap,
                   isClusteringEnabled, refVars>>

\* onChange of the sync-all checkbox: setIsSynced(checked).
SetIsSynced(v) ==
    /\ phase = "mounted"
    /\ isSynced' = v
    /\ IF SyncDeps(isSynced, uniformRadius, v, uniformRadius) /\ v
       THEN /\ radii' = SyncEffect(radii, uniformRadius)
            /\ SetWorld(RadiiEffect(World, radii', layerRefs))
       ELSE /\ radii' = radii
            /\ SetWorld(World)
    /\ UNCHANGED <<phase, searchVars, asyncVars, uniformRadius, showLabels, showHeatmap,
                   isClusteringEnabled, refVars>>

\* a uniform-radius slider that is never disabled
SetUniformRadius_Enabled(v) ==
    /\ phase = "mounted"
    /\ uniformRadius' = v
    /\ IF SyncDeps(isSynced, uniformRadius, isSynced, v) /\ isSynced
       THEN /\ radii' = SyncEffect(radii, v)
            /\ SetWorld(RadiiEffect(World, radii', layerRefs))
       ELSE /\ radii' = radii
            /\ SetWorld(World)
    /\ UNCHANGED <<phase, searchVars, asyncVars, isSynced, showLabels, showHeatmap,
                   isClusteringEnabled, refVars>>

\* onChange of the uniform-radius slider (disabled unless isSynced).
SetUniformRadius(v) ==
    /\ phase = "mounted"
    /\ isSynced
    /\ uniformRadius' = v
    /\ IF SyncDeps(isSynced, uniformRadius, isSynced, v) /\ isSynced
       THEN /\ radii' = SyncEffect(radii, v)
            /\ SetWorld(RadiiEffect(World, radii', layerRefs))
       ELSE /\ radii' = radii
            /\ SetWorld(World)
    /\ UNCHANGED <<phase, searchVars, asyncVars, isSynced, showLabels, showHeatmap,
                   isClusteringEnabled, refVars>>

\* a show-labels handler that also switches synchronization off
SetShowLabels_ClearsSync(v) ==
    /\ phase = "mounted"
    /\ showLabels' = v
    /\ isSynced' = FALSE
    /\ SetWorld(IF LabelsDeps(showLabels, v)
                THEN LabelsEffect(World, SortedSeq(CatalogIds), layerRefs, v)
                ELSE World)
    /\ UNCHANGED <<phase, searchVars, asyncVars, radii, uniformRadius, showHeatmap,
                   isClusteringEnabled, refVars>>

\* onChange of the show-labels checkbox: setShowLabels(checked).
SetShowLabels(v) ==
    /\ phase = "mounted"
    /\ showLabels' = v
    /\ SetWorld(IF LabelsDeps(showLabels, v)
                THEN LabelsEffect(World, SortedSeq(CatalogIds), layerRefs, v)
                ELSE World)
    /\ UNCHANGED <<phase, searchVars, asyncVars, radii, isSynced, uniformRadius, showHeatmap,
                   isClusteringEnabled, refVars>>

\* a heatmap toggle whose effect also takes the cluster group off the map
SetShowHeatmap_DropsCluster(v) ==
    /\ phase = "mounted"
    /\ showHeatmap' = v
    /\ SetWorld(IF HeatmapDeps(showHeatmap, v)
                THEN MapRemoveCluster(HeatmapEffect(World, mapRef, heatmapLayerRef, v))
                ELSE World)
    /\ UNCHANGED <<phase, searchVars, asyncVars, radii, isSynced, uniformRadius, showLabels,
                   isClusteringEnabled, refVars>>

\* onChange of the show-heatmap checkbox: setShowHeatmap(checked).
SetShowHeatmap(v) ==
    /\ phase = "mounted"
    /\ showHeatmap' = v
    /\ SetWorld(IF HeatmapDeps(showHeatmap, v)
                THEN HeatmapEffect(World, mapRef, heatmapLayerRef, v)
                ELSE World)
    /\ UNCHANGED <<phase, searchVars, asyncVars, radii, isSynced, uniformRadius, showLabels,
                   isClusteringEnabled, refVars>>

\* onChange of the enable-clustering checkbox: setIsClusteringEnabled(checked).
SetIsClusteringEnabled(v, S) ==
    /\ phase = "mounted"
    /\ S = {} \/ (v /\ ~isClusteringEnabled)
    /\ isClusteringEnabled' = v
    /\ SetWorld(IF ClusteringDeps(isClusteringEnabled, v)
                THEN ClusteringEffect(World, mapRef, markerClusterGroupRef,
                                      layerRefs, v, S)
                ELSE World)
    /\ UNCHANGED <<phase, searchVars, asyncVars, radii, isSynced, uniformRadius, showLabels,
                   showHeatmap, refVars>>

\* A click on the marker of id opens its popup; Leaflet builds the popup's
\* nodes from the bound markup and closes any other popup.
OpenPopup(id) ==
    /\ phase = "mounted"
    /\ Marker(id) \in mapLayers
    /\ popupOpen # id
    /\ SetWorld([World EXCEPT !.popup = id, !.label = PopupInitialValue,
                              !.slider = PopupInitialValue])
    /\ UNCHANGED <<phase, reactVars, refVars>>

ClosePopup ==
    /\ phase = "mounted"
    /\ popupOpen # 0
    /\ SetWorld(ClosePopupOf(World, popupOpen))
    /\ UNCHANGED <<phase, reactVars, refVars>>

\* Zooming in: the attached cluster group puts the marker of id on the map.
ClusterExpand(id) ==
    /\ phase = "mounted"
    /\ ClusterGroup \in mapLayers
    /\ id \notin fgLayers
    /\ SetWorld(MapAddLayer([World EXCEPT !.fg = @ \cup {id}], Marker(id)))
    /\ UNCHANGED <<phase, reactVars, refVars>>

\* Zooming out: the attached cluster group takes the marker of id off the map.
ClusterCollapse(id) ==
    /\ phase = "mounted"
    /\ ClusterGroup \in mapLayers
    /\ id \in fgLayers
    /\ SetWorld(MapRemoveLayer([World EXCEPT !.fg = @ \ {id}], Marker(id)))
    /\ UNCHANGED <<phase, reactVars, refVars>>

\* a cleanup that leaves window.updateRadius in place
Unmount_KeepsEntryPoint ==
    /\ phase = "mounted"
    /\ LET w0 == Log(World, Call("remove", Layer("map", 0), 0))
           w1 == MapRemoveCluster(w0)
           w2 == RemoveMarkers(w1, SortedSeq(CatalogIds))
       IN SetWorld([w2 EXCEPT !.layers = {}])
    /\ phase' = "unmounted"
    /\ mapRef' = FALSE
    /\ UNCHANGED <<reactVars, layerRefs, markerClusterGroupRef, heatmapLayerRef,
                   updateRadiusFn>>

\* Cleanup of the init effect: map.remove() detaches every layer.
Unmount ==
    /\ phase = "mounted"
    /\ LET w0 == Log(World, Call("remove", Layer("map", 0), 0))
           w1 == MapRemoveCluster(w0)
           w2 == RemoveMarkers(w1, SortedSeq(CatalogIds))
       IN SetWorld([w2 EXCEPT !.layers = {}])
    /\ phase' = "unmounted"
    /\ mapRef' = FALSE
    /\ updateRadiusFn' = "noop"
    /\ UNCHANGED <<reactVars, layerRefs, markerClusterGroupRef, heatmapLayerRef>>

\* a search box whose change builds the layers of the listed locations again
SetSearchTerm_RebuildsLayers(q) ==
    /\ phase = "mounted"
    /\ searchTerm' = q
    /\ filteredLocations' = filterLocations(SortedSeq(CatalogIds), cities, q)
    /\ SetWorld(InitLayers(World, filteredLocations'))
    /\ UNCHANGED <<phase, cities, asyncVars, radii, isSynced, uniformRadius,
                   showLabels, showHeatmap, isClusteringEnabled, refVars>>

\* onChange of the search box: setSearchTerm(value); useMemo recomputes
\* filteredLocations when searchTerm changed.
SetSearchTerm(q) ==
    /\ phase = "mounted"
    /\ searchTerm' = q
    /\ filteredLocations' = IF q # searchTerm
                            THEN filterLocations(SortedSeq(CatalogIds), cities, q)
                            ELSE filteredLocations
    /\ SetWorld(World)
    /\ UNCHANGED <<phase, cities, asyncVars, radii, isSynced, uniformRadius,
                   showLabels, showHeatmap, isClusteringEnabled, refVars>>

\* marker.openPopup(): opens the bound popup when the marker is on the map,
\* closing any other popup; nothing happens when it is open already.
MarkerOpenPopup(w, id) ==
    LET w1 == Log(w, Call("openPopup", Marker(id), 0))
    IN IF Marker(id) \in w1.layers /\ w1.popup # id
       THEN [w1 EXCEPT !.popup = id, !.label = PopupInitialValue,
                       !.slider = PopupInitialValue]
       ELSE w1

\* handleLocationSelect(loc), a click on a row of the list.  inView: the
\* marker's icon lies inside the current viewport.  zoomToShowLayer calls
\* back at once for a marker that is shown and in view, and otherwise moves
\* the view and waits for the end of the movement.
HandleLocationSelect(id, inView) ==
    /\ phase = "mounted"
    /\ \E i \in 1..Len(filteredLocations) : filteredLocations[i] = id
    /\ IF mapRef /\ id \in layerRefs
       THEN IF isClusteringEnabled /\ markerClusterGroupRef
            THEN LET w1 == Log(World, Call("zoomToShowLayer", Marker(id), 0))
                 IN IF Marker(id) \in mapLayers /\ inView
                    THEN /\ SetWorld(MarkerOpenPopup(w1, id))
                         /\ pendingReveals' = pendingReveals
                    ELSE /\ SetWorld(w1)
                         /\ pendingReveals' = pendingReveals \cup {id}
            ELSE /\ SetWorld(MarkerOpenPopup(
                         Log(World, Call("setView", Marker(id), DetailZoom)), id))
                 /\ pendingReveals' = pendingReveals
       ELSE /\ SetWorld(World)
            /\ pendingReveals' = pendingReveals
    /\ UNCHANGED <<phase, searchVars, fullscreenElement, fullscreenRequests, radii,
                   isSynced, uniformRadius, showLabels, showHeatmap,
                   isClusteringEnabled, refVars>>

\* The movement started by zoomToShowLayer ends.  The attached cluster group
\* first shows the markers of the new viewport that it does not show yet;
\* then zoomToShowLayer's listener calls back if the marker is on the map,
\* and keeps waiting otherwise.
RevealMoveEnd(id) ==
    /\ phase = "mounted"
    /\ id \in pendingReveals
    /\ LET w0 == Log(World, Call("moveend", Layer("map", 0), 0))
           w1 == IF ClusterGroup \in mapLayers /\ id \notin fgLayers
                 THEN MapAddLayer([w0 EXCEPT !.fg = @ \cup {id}], Marker(id))
                 ELSE w0
       IN IF Marker(id) \in w1.layers
          THEN /\ SetWorld(MarkerOpenPopup(w1, id))
               /\ pendingReveals' = pendingReveals \ {id}
          ELSE /\ SetWorld(w1)
               /\ pendingReveals' = pendingReveals
    /\ UNCHANGED <<phase, searchVars, fullscreenElement, fullscreenRequests, radii,
                   isSynced, uniformRadius, showLabels, showHeatmap,
                   isClusteringEnabled, refVars>>

\* button.onclick of the fullscreen control: request fullscreen for the map
\* container when no element is fullscreen, else leave fullscreen.
FullscreenClick ==
    /\ phase = "mounted"
    /\ IF ~fullscreenElement
       THEN /\ fullscreenRequests < MaxPendingRequests
            /\ fullscreenRequests' = fullscreenRequests + 1
            /\ fullscreenElement' = fullscreenElement
            /\ SetWorld(Log(World, Call("requestFullscreen", Layer("map", 0), 0)))
       ELSE /\ fullscreenRequests' = fullscreenRequests
            /\ fullscreenElement' = FALSE
            /\ SetWorld(Log(World, Call("exitFullscreen", Layer("document", 0), 0)))
    /\ UNCHANGED <<phase, searchVars, pendingReveals, radii, isSynced, uniformRadius,
                   showLabels, showHeatmap, isClusteringEnabled, refVars>>

\* The browser grants a pending request: the promise resolves, no callback.
FullscreenResolve ==
    /\ fullscreenRequests > 0
    /\ fullscreenRequests' = fullscreenRequests - 1
    /\ fullscreenElement' = TRUE
    /\ SetWorld(World)
    /\ UNCHANGED <<phase, searchVars, pendingReveals, radii, isSynced, uniformRadius,
                   showLabels, showHeatmap, isClusteringEnabled, refVars>>

\* a rejection callback that alerts and asks for fullscreen again
FullscreenReject_Retries ==
    /\ fullscreenRequests > 0
    /\ fullscreenRequests' = fullscreenRequests
    /\ fullscreenElement' = fullscreenElement
    /\ SetWorld(Log(Log(World, Call("alert", Layer("window", 0), 0)),
                    Call("requestFullscreen", Layer("map", 0), 0)))
    /\ UNCHANGED <<phase, searchVars, pendingReveals, radii, isSynced, uniformRadius,
                   showLabels, showHeatmap, isClusteringEnabled, refVars>>

\* The browser refuses a pending request: the promise rejects and the catch
\* callback alerts.
FullscreenReject ==
    /\ fullscreenRequests > 0
    /\ fullscreenRequests' = fullscreenRequests - 1
    /\ fullscreenElement' = fullscreenElement
    /\ SetWorld(Log(World, Call("alert", Layer("window", 0), 0)))
    /\ UNCHANGED <<phase, searchVars, pendingReveals, radii, isSynced, uniformRadius,
                   showLabels, showHeatmap, isClusteringEnabled, refVars>>

Next ==
    \/ \E S \in SUBSET CatalogIds : Mount(S)
    \/ \E q \in Terms : SetSearchTerm(q)
    \/ FullscreenClick
    \/ FullscreenResolve
    \/ FullscreenReject
    \/ \E id \in CatalogIds, inView \in BOOLEAN : HandleLocationSelect(id, inView)
    \/ \E id \in CatalogIds : RevealMoveEnd(id)
    \/ \E id \in AllIds, v \in SliderInputs : UpdateRadius(id, v)
    \/ \E id \in CatalogIds, v \in SliderInputs : PopupSliderInput(id, v)
    \/ \E v \in BOOLEAN : SetIsSynced(v)
    \/ \E v \in SliderInputs : SetUniformRadius(v)
    \/ \E v \in BOOLEAN : SetShowLabels(v)
    \/ \E v \in BOOLEAN : SetShowHeatmap(v)
    \/ \E v \in BOOLEAN, S \in SUBSET CatalogIds : SetIsClusteringEnabled(v, S)
    \/ \E id \in CatalogIds : OpenPopup(id)
    \/ ClosePopup
    \/ \E id \in CatalogIds : ClusterExpand(id)
    \/ \E id \in CatalogIds : ClusterCollapse(id)
    \/ Unmount

Spec == Init /\ [][Next]_vars

\* The Radius State Store with its popups: no visualization toggle fires.
NextRadius ==
    \/ \E S \in SUBSET CatalogIds : Mount(S)
    \/ \E id \in AllIds, v \in SliderInputs : UpdateRadius(id, v)
    \/ \E id \in CatalogIds, v \in SliderInputs : PopupSliderInput(id, v)
    \/ \E v \in BOOLEAN : SetIsSynced(v)
    \/ \E v \in SliderInputs : SetUniformRadius(v)
    \/ \E id \in CatalogIds : OpenPopup(id)
    \/ ClosePopup
    \/ \E id \in CatalogIds : ClusterExpand(id)
    \/ \E id \in CatalogIds : ClusterCollapse(id)
    \/ Unmount

SpecRadius == Init /\ [][NextRadius]_vars

\* The visualization toggles and the map's layers: no radius input fires.
NextView ==
    \/ \E S \in SUBSET CatalogIds : Mount(S)
    \/ \E v \in BOOLEAN : SetShowLabels(v)
    \/ \E v \in BOOLEAN : SetShowHeatmap(v)
    \/ \E v \in BOOLEAN, S \in SUBSET CatalogIds : SetIsClusteringEnabled(v, S)
    \/ \E id \in CatalogIds : OpenPopup(id)
    \/ ClosePopup
    \/ \E id \in CatalogIds : ClusterExpand(id)
    \/ \E id \in CatalogIds : ClusterCollapse(id)
    \/ Unmount

SpecView == Init /\ [][NextView]_vars

\* The state stores: radius inputs and visualization toggles together, without
\* popups and cluster events.
NextStore ==
    \/ \E S \in SUBSET CatalogIds : Mount(S)
    \/ \E id \in AllIds, v \in SliderInputs : UpdateRadius(id, v)
    \/ \E v \in BOOLEAN : SetIsSynced(v)
    \/ \E v \in SliderInputs : SetUniformRadius(v)
    \/ \E v \in BOOLEAN : SetShowLabels(v)
    \/ \E v \in BOOLEAN : SetShowHeatmap(v)
    \/ \E v \in BOOLEAN, S \in SUBSET CatalogIds : SetIsClusteringEnabled(v, S)
    \/ Unmount

SpecStore == Init /\ [][NextStore]_vars

\* The search filter on every catalog over CityNames.
InitSearch == \E c \in [CatalogIds -> CityNames] : InitState(c)

NextSearch ==
    \/ \E S \in SUBSET CatalogIds : Mount(S)
    \/ \E q \in Terms : SetSearchTerm(q)

SpecSearch == InitSearch /\ [][NextSearch]_vars

\* Selecting from the list, with the clustering toggle and the cluster
\* group's own zoom events.
NextSelect ==
    \/ \E S \in SUBSET CatalogIds : Mount(S)
    \/ \E v \in BOOLEAN, S \in SUBSET CatalogIds : SetIsClusteringEnabled(v, S)
    \/ \E id \in CatalogIds, inView \in BOOLEAN : HandleLocationSelect(id, inView)
    \/ \E id \in CatalogIds : RevealMoveEnd(id)
    \/ ClosePopup
    \/ \E id \in CatalogIds : ClusterExpand(id)
    \/ \E id \in CatalogIds : ClusterCollapse(id)
    \/ Unmount

SpecSelect == Init /\ [][NextSelect]_vars

\* The fullscreen button among the visualization toggles and the popups.
NextFullscreen ==
    \/ \E S \in SUBSET CatalogIds : Mount(S)
    \/ \E v \in BOOLEAN : SetShowLabels(v)
    \/ \E v \in BOOLEAN : SetShowHeatmap(v)
    \/ \E v \in BOOLEAN, S \in SUBSET CatalogIds : SetIsClusteringEnabled(v, S)
    \/ \E id \in CatalogIds : OpenPopup(id)
    \/ ClosePopup
    \/ FullscreenClick
    \/ FullscreenResolve
    \/ FullscreenReject
    \/ Unmount

SpecFullscreen == Init /\ [][NextFullscreen]_vars

\* The radius inputs with the slider values delivered as strings, both ends
\* of the slider range among them.
NextRange ==
    \/ \E S \in SUBSET CatalogIds : Mount(S)
    \/ \E id \in AllIds, str \in EdgeInputs : UpdateRadius(id, Number(str))
    \/ \E v \in BOOLEAN : SetIsSynced(v)
    \/ \E str \in EdgeInputs : SetUniformRadius(Number(str))
    \/ Unmount

SpecRange == Init /\ [][NextRange]_vars

\* Every kind of event next to the layer handles: a radius input and the
\* sync checkbox, the three toggles, two searches, and a click on the first
\* row of the list.
HandleTerms == {<<>>, <<"b">>}

NextHandles ==
    \/ \E S \in SUBSET CatalogIds : Mount(S)
    \/ \E v \in SliderInputs : UpdateRadius(1, v)
    \/ \E v \in BOOLEAN : SetIsSynced(v)
    \/ \E v \in BOOLEAN : SetShowLabels(v)
    \/ \E v \in BOOLEAN : SetShowHeatmap(v)
    \/ \E v \in BOOLEAN, S \in SUBSET CatalogIds : SetIsClusteringEnabled(v, S)
    \/ \E q \in HandleTerms : SetSearchTerm(q)
    \/ \E inView \in BOOLEAN :
          /\ filteredLocations # <<>>
          /\ HandleLocationSelect(Head(filteredLocations), inView)
    \/ \E id \in CatalogIds : RevealMoveEnd(id)
    \/ Unmount

SpecHandles == Init /\ [][NextHandles]_vars

\* ---- properties -----------------------------------------------------------
HasCall(cs, op, l) ==
    \E i \in 1..Len(cs) : cs[i].op = op /\ cs[i].kind = l.kind /\ cs[i].id = l.id

\* C1: whenever synchronized is true, every RadiusMap value equals
\* uniformRadius, whatever slider inputs and checkbox toggles came before.
C1_SyncedAllUniform ==
    isSynced => \A id \in DOMAIN radii : radii[id] = uniformRadius

\* C2: a step that turns synchronized on, or changes uniformRadius while
\* synchronized is on, ends with every RadiusMap entry equal to the current
\* uniformRadius.
C2_BulkSync ==
    [][(isSynced' /\ (~isSynced \/ uniformRadius' # uniformRadius))
         => \A id \in DOMAIN radii' : radii'[id] = uniformRadius']_vars

C2_Witness ==
    /\ phase = "mounted"
    /\ isSynced
    /\ uniformRadius # DefaultRadius
    /\ \A id \in CatalogIds : radii[id] = uniformRadius
    /\ \A id \in CatalogIds : HasCall(calls, "setRadius", Circle(id))

\* C3: from initialization on, the key set of RadiusMap is exactly the
\* catalog's id set.
C3_KeySet ==
    phase = "mounted" => DOMAIN radii = CatalogIds

\* C4: setRadius with an id that is not in the catalog changes nothing:
\* RadiusMap keeps its keys and values and all other state is unchanged.
C4_UnknownIdNoOp ==
    [][(\E v \in SliderInputs : UpdateRadius(UnknownId, v))
         => /\ radii' = radii
            /\ UNCHANGED <<phase, searchVars, asyncVars, isSynced, uniformRadius, showLabels,
                           showHeatmap, isClusteringEnabled, refVars, mapLayers,
                           fgLayers, circleRadius, markerIcon, popupOpen,
                           popupLabel, popupSlider>>]_vars

\* a marker is individually attached when it is on the map without the
\* cluster group showing it
IndividuallyAttached(id) == Marker(id) \in mapLayers /\ id \notin fgLayers

ClusterMode ==
    /\ ClusterGroup \in mapLayers
    /\ \A id \in CatalogIds : ~IndividuallyAttached(id)

IndividualMode ==
    /\ ClusterGroup \notin mapLayers
    /\ \A id \in CatalogIds : Marker(id) \in mapLayers

\* C5: after initialization exactly one marker rendering mode is active:
\* the cluster group is attached and no marker is individually attached, or
\* the cluster group is detached and every marker is individually attached.
C5_OneRenderingMode ==
    phase = "mounted" => (ClusterMode \/ IndividualMode)

C5_Witness ==
    /\ phase = "mounted"
    /\ ~isClusteringEnabled
    /\ IndividualMode
    /\ HasCall(calls, "removeLayer", ClusterGroup)

\* C6: after initialization the circle of a location is on the map exactly
\* when its marker is on the map, individually or expanded out of the
\* cluster group.
C6_CircleFollowsMarker ==
    phase = "mounted" =>
        \A id \in CatalogIds : Circle(id) \in mapLayers <=> Marker(id) \in mapLayers

C6_Witness ==
    /\ phase = "mounted"
    /\ ClusterGroup \in mapLayers
    /\ \E a, b \in CatalogIds :
          /\ Marker(a) \in mapLayers /\ Circle(a) \in mapLayers
          /\ Marker(b) \notin mapLayers /\ Circle(b) \notin mapLayers
          /\ HasCall(calls, "removeLayer", Circle(b))

\* C7: once a RadiusMap change is reconciled, and right after
\* initialization, every catalog location's circle is drawn with
\* RadiusMap[id] * 1000 meters.
C7_DrawnRadius ==
    phase = "mounted" =>
        \A id \in CatalogIds : circleRadius[id] = radii[id] * MetersPerKm

C7_Witness ==
    /\ phase = "mounted"
    /\ \E a, b \in CatalogIds :
          /\ radii[a] # DefaultRadius
          /\ radii[b] = DefaultRadius
          /\ circleRadius[a] = radii[a] * MetersPerKm
          /\ circleRadius[b] = DefaultRadius * MetersPerKm

\* C8: whenever a popup is open, its label and its slider show the
\* RadiusMap value of its location.
C8_PopupShowsRadius ==
    popupOpen # 0 =>
        /\ popupLabel = radii[popupOpen]
        /\ popupSlider = radii[popupOpen]

\* C9: setting the labels, heatmap or clustering flag to the value it
\* already has issues no Leaflet call.
C9_SameValueNoCalls ==
    [][(\/ \E v \in BOOLEAN : v = showLabels /\ SetShowLabels(v)
        \/ \E v \in BOOLEAN : v = showHeatmap /\ SetShowHeatmap(v)
        \/ \E v \in BOOLEAN, S \in SUBSET CatalogIds :
              v = isClusteringEnabled /\ SetIsClusteringEnabled(v, S))
         => calls' = <<>>]_vars

C9_Witness ==
    /\ phase = "mounted"
    /\ ~showLabels
    /\ showHeatmap
    /\ ~isClusteringEnabled
    /\ calls = <<>>

\* C10: after initialization and after every heatmap toggle the heat layer
\* exists and is on the map exactly when showHeatmap is true; it is never
\* added while attached nor removed while detached.
C10_HeatmapAttached ==
    [][/\ phase' = "mounted" =>
            (heatmapLayerRef' /\ (HeatLayer \in mapLayers' <=> showHeatmap'))
       /\ HeatLayer \in mapLayers => ~HasCall(calls', "addLayer", HeatLayer)
       /\ HeatLayer \notin mapLayers => ~HasCall(calls', "removeLayer", HeatLayer)]_vars

C10_Witness ==
    /\ phase = "mounted"
    /\ showHeatmap
    /\ HeatLayer \in mapLayers
    /\ HasCall(calls, "addLayer", HeatLayer)
visualFlags == <<showLabels, showHeatmap, isClusteringEnabled>>
radiusStore == <<radii, uniformRadius, isSynced>>

\* C11: a step that changes labelsVisible, heatmapVisible or
\* clusteringEnabled leaves RadiusMap, uniformRadius and synchronized as they
\* were, and a step that changes one of those three leaves the flags as they
\* were.
C11_FlagsRadiusFrame ==
    [][phase = "mounted" =>
          /\ visualFlags' # visualFlags => radiusStore' = radiusStore
          /\ radiusStore' # radiusStore => visualFlags' = visualFlags]_vars

C11_Witness ==
    /\ phase = "mounted"
    /\ ~showLabels
    /\ showHeatmap
    /\ ~isClusteringEnabled
    /\ isSynced
    /\ uniformRadius # DefaultRadius
    /\ \A id \in CatalogIds : radii[id] = uniformRadius
\* two characters are the same letter, whatever their case
SameLetter(a, b) ==
    \/ a = b
    \/ \E i \in 1..Len(UpperChars) : {a, b} = {UpperChars[i], LowerChars[i]}

\* q occurs in city at some offset, letter by letter
ContainsIgnoringCase(city, q) ==
    \E k \in 0..(Len(city) - Len(q)) :
        \A j \in 1..Len(q) : SameLetter(city[k + j], q[j])

\* C12: the listed locations are the catalog records whose city contains the
\* query case-insensitively, exactly those, in catalog order; the empty query
\* lists the whole catalog and a query that matches no city lists nothing.
C12_SearchFilter ==
    /\ \A i, j \in 1..Len(filteredLocations) :
          i < j => filteredLocations[i] < filteredLocations[j]
    /\ {filteredLocations[i] : i \in 1..Len(filteredLocations)}
          = {id \in CatalogIds : ContainsIgnoringCase(cities[id], searchTerm)}
    /\ searchTerm = <<>> => filteredLocations = SortedSeq(CatalogIds)
    /\ (\A id \in CatalogIds : ~ContainsIgnoringCase(cities[id], searchTerm))
          => filteredLocations = <<>>

C12_Witness ==
    /\ searchTerm # <<>>
    /\ Len(filteredLocations) > 0
    /\ Len(filteredLocations) < NumLocations
    /\ \E i \in 1..Len(filteredLocations) :
          ~includes(cities[filteredLocations[i]], searchTerm)
\* C13: selecting location X ends with popup X open.  With clustering active
\* the cluster group is asked to reveal marker X, and the popup opens in the
\* same step only for a marker that is revealed already, otherwise when the
\* reveal's movement ends; with clustering inactive the view is set to
\* marker X at the detail zoom, the popup opens directly and the cluster
\* group is not asked.
C13_SelectOpensPopup ==
    [][\A id \in CatalogIds :
         /\ (\E inView \in BOOLEAN : HandleLocationSelect(id, inView)) =>
               IF isClusteringEnabled
               THEN /\ HasCall(calls', "zoomToShowLayer", Marker(id))
                    /\ ~HasCall(calls', "setView", Marker(id))
                    /\ popupOpen' = id \/ id \in pendingReveals'
                    /\ (popupOpen' = id /\ popupOpen # id) => Marker(id) \in mapLayers
               ELSE /\ calls'[1] = Call("setView", Marker(id), DetailZoom)
                    /\ ~HasCall(calls', "zoomToShowLayer", Marker(id))
                    /\ popupOpen' = id
                    /\ pendingReveals' = pendingReveals
         /\ RevealMoveEnd(id) => popupOpen' = id /\ Marker(id) \in mapLayers'
      ]_vars
\* the calls of cs with operation op
CallsOf(cs, op) == {i \in 1..Len(cs) : cs[i].op = op}

\* C14: a rejected fullscreen request raises exactly one alert and no new
\* request, and changes neither the radius store, the visualization flags,
\* the layers on the map nor anything else an operation's guard reads.
C14_RejectedFullscreen ==
    [][FullscreenReject =>
         /\ Cardinality(CallsOf(calls', "alert")) = 1
         /\ CallsOf(calls', "requestFullscreen") = {}
         /\ fullscreenRequests' = fullscreenRequests - 1
         /\ UNCHANGED <<radiusStore, visualFlags, mapLayers, fgLayers, circleRadius,
                        markerIcon, popupOpen, popupLabel, popupSlider, phase,
                        searchVars, pendingReveals, fullscreenElement, refVars>>
      ]_vars

C14_Witness ==
    /\ phase = "mounted"
    /\ calls = <<Call("alert", Layer("window", 0), 0)>>
    /\ fullscreenRequests = 0
    /\ ~fullscreenElement
    /\ showHeatmap /\ ~isClusteringEnabled
    /\ popupOpen # 0
\* the calls of cs with operation op on layer l
CallsOn(cs, op, l) ==
    {i \in 1..Len(cs) : cs[i].op = op /\ cs[i].kind = l.kind /\ cs[i].id = l.id}

\* C15: the step that initializes the map creates exactly one marker and one
\* circle per catalog location and keeps a handle pair for each, adds every
\* marker to the cluster group, and ends with the cluster group on the map,
\* no marker individually attached and every radius equal to 10.
C15_AfterInit ==
    [][(\E S \in SUBSET CatalogIds : Mount(S)) =>
         /\ layerRefs' = CatalogIds
         /\ \A id \in CatalogIds :
               /\ Cardinality(CallsOn(calls', "createMarker", Marker(id))) = 1
               /\ Cardinality(CallsOn(calls', "createCircle", Circle(id))) = 1
               /\ Cardinality(CallsOn(calls', "clusterAddLayer", Marker(id))) = 1
               /\ ~IndividuallyAttached(id)'
         /\ markerClusterGroupRef'
         /\ ClusterGroup \in mapLayers'
         /\ isClusteringEnabled'
         /\ radii' = [id \in CatalogIds |-> DefaultRadius]
      ]_vars

C15_Witness ==
    /\ phase = "mounted"
    /\ HasCall(calls, "clusterAddLayer", Marker(NumLocations))
    /\ fgLayers # {}
    /\ ClusterGroup \in mapLayers
    /\ radii = initialRadii
\* C16: after teardown the map is destroyed and no handle is held: the map
\* reference, the per-location marker/circle handles, the cluster group
\* handle and the heat layer handle are all released.
C16_TeardownReleases ==
    phase = "unmounted" =>
        /\ mapLayers = {}
        /\ ~mapRef
        /\ layerRefs = {}
        /\ ~markerClusterGroupRef
        /\ ~heatmapLayerRef
\* C17: with every slider delivering a position between 1 and 50, every
\* RadiusMap value and uniformRadius is an integer between 1 and 50.
C17_RadiiInRange ==
    /\ \A id \in DOMAIN radii : radii[id] \in SliderMin..SliderMax
    /\ uniformRadius \in SliderMin..SliderMax

C17_Witness ==
    /\ phase = "mounted"
    /\ uniformRadius = SliderMax
    /\ \E id \in CatalogIds : radii[id] = SliderMin
    /\ \E id \in CatalogIds : radii[id] = SliderMax
\* C18: once the map is initialized, and after every label toggle, every
\* marker's icon carries its city label exactly when showLabels is true, the
\* same for all markers, and always carries the dot.
C18_LabelsFollowFlag ==
    phase = "mounted" =>
        \A id \in CatalogIds :
            /\ markerIcon[id].dot
            /\ markerIcon[id].label = (IF showLabels THEN id ELSE 0)

C18_Witness ==
    /\ phase = "mounted"
    /\ ~showLabels
    /\ HasCall(calls, "setIcon", Marker(NumLocations))
    /\ \A id \in CatalogIds : markerIcon[id].label = 0
\* the layers on the map other than the heat layer
MarkerLayers == mapLayers \ {HeatLayer}

\* C19: a change of one visualization flag leaves the other two flags and
\* what they control alone: a clustering toggle keeps the heat layer's
\* attachment and the icons, a heatmap toggle keeps the attachment of the
\* markers, circles and cluster group and the icons, and a label toggle
\* keeps every attachment.
C19_FlagsIndependent ==
    [][/\ (\E v \in BOOLEAN, S \in SUBSET CatalogIds : SetIsClusteringEnabled(v, S)) =>
            /\ UNCHANGED <<showLabels, showHeatmap, markerIcon>>
            /\ (HeatLayer \in mapLayers') = (HeatLayer \in mapLayers)
       /\ (\E v \in BOOLEAN : SetShowHeatmap(v)) =>
            /\ UNCHANGED <<showLabels, isClusteringEnabled, markerIcon, fgLayers>>
            /\ MarkerLayers' = MarkerLayers
       /\ (\E v \in BOOLEAN : SetShowLabels(v)) =>
            /\ UNCHANGED <<showHeatmap, isClusteringEnabled, mapLayers, fgLayers>>
      ]_vars

C19_Witness ==
    /\ phase = "mounted"
    /\ showHeatmap /\ HeatLayer \in mapLayers
    /\ ~showLabels
    /\ isClusteringEnabled /\ ClusterGroup \in mapLayers
    /\ HasCall(calls, "addLayer", ClusterGroup)
    /\ \E id \in CatalogIds : Marker(id) \in mapLayers
\* C20: the marker and the circle of each location are created once, in the
\* step that initializes the map; no later step, teardown included, creates
\* a marker or a circle or changes the set of handle pairs.
C20_HandlesCreatedOnce ==
    [][IF phase = "rendered"
       THEN /\ layerRefs' = CatalogIds
            /\ \A id \in CatalogIds :
                  /\ Cardinality(CallsOn(calls', "createMarker", Marker(id))) = 1
                  /\ Cardinality(CallsOn(calls', "createCircle", Circle(id))) = 1
       ELSE /\ layerRefs' = layerRefs
            /\ CallsOf(calls', "createMarker") = {}
            /\ CallsOf(calls', "createCircle") = {}
      ]_vars

C20_Witness ==
    /\ phase = "mounted"
    /\ layerRefs = CatalogIds
    /\ searchTerm # <<>>
    /\ popupOpen # 0
    /\ ~isClusteringEnabled
    /\ isSynced
    /\ ~showLabels
\* C21: a radius input for a catalog id, from the entry point or from the
\* popup slider, sets that id's entry to the value and leaves every other
\* entry of radii, uniformRadius, isSynced and the three visualization flags
\* as they were, whether isSynced is true or not.
C21_SetRadiusFrame ==
    [][\A id \in CatalogIds, v \in SliderInputs :
         (/\ phase = "mounted"
          /\ radii'[id] = v              \* implied by both actions; evaluated first
          /\ (UpdateRadius(id, v) \/ PopupSliderInput(id, v))) =>
             /\ DOMAIN radii' = DOMAIN radii
             /\ radii'[id] = v
             /\ \A other \in DOMAIN radii \ {id} : radii'[other] = radii[other]
             /\ UNCHANGED <<uniformRadius, isSynced, visualFlags>>
      ]_vars

C21_Witness ==
    /\ phase = "mounted"
    /\ isSynced
    /\ HasCall(calls, "setRadius", Circle(1))
    /\ radii[1] # uniformRadius
    /\ \A id \in CatalogIds \ {1} : radii[id] = uniformRadius
\* C22: clearing the sync checkbox while isSynced is true leaves radii and
\* uniformRadius as they were: every location keeps its radius, no circle is
\* given a radius and no drawn radius changes.
C22_UnsyncKeepsRadii ==
    [][(isSynced /\ SetIsSynced(FALSE)) =>
         /\ ~isSynced'
         /\ UNCHANGED <<radii, uniformRadius, circleRadius>>
         /\ CallsOf(calls', "setRadius") = {}
      ]_vars

C22_Witness ==
    /\ phase = "mounted"
    /\ ~isSynced
    /\ calls = <<>>
    /\ uniformRadius = SliderMax
    /\ \A id \in CatalogIds : radii[id] = SliderMax
    /\ \A id \in CatalogIds : circleRadius[id] = SliderMax * MetersPerKm
\* C23: uniformRadius changes only in a step taken while isSynced is true,
\* and once the map is initialized a step that changes radii and ends with
\* isSynced false is a per-location radius input (the synchronizing effect
\* writes radii only under isSynced true).
C23_UniformOnlyWhenSynced ==
    [][/\ uniformRadius' # uniformRadius => isSynced /\ isSynced'
       /\ (phase = "mounted" /\ radii' # radii /\ ~isSynced') =>
             \E id \in DOMAIN radii' :
                 \/ UpdateRadius(id, radii'[id])
                 \/ PopupSliderInput(id, radii'[id])
      ]_vars

C23_Witness ==
    /\ phase = "mounted"
    /\ ~isSynced
    /\ uniformRadius = SliderMin
    /\ HasCall(calls, "setRadius", Circle(1))
    /\ radii[1] = SliderMax
    /\ \A id \in CatalogIds \ {1} : radii[id] = SliderMin
\* C24: after teardown a call of window.updateRadius, for any id and any
\* value, changes neither radii nor any circle's drawn radius and gives no
\* circle a radius.
C24_UpdateAfterTeardown ==
    [][\A id \in AllIds, str \in EdgeInputs :
         (phase = "unmounted" /\ UpdateRadius(id, Number(str))) =>
             /\ UNCHANGED <<radii, circleRadius, mapLayers>>
             /\ CallsOf(calls', "setRadius") = {}
      ]_vars

C24_Witness ==
    /\ phase = "unmounted"
    /\ updateRadiusFn = "noop"
    /\ calls = <<>>
    /\ radii[1] = SliderMax
    /\ circleRadius[1] = SliderMax * MetersPerKm
====
